---- MODULE Spec2Model ----
(***************************************************************************)
(* A model of main.py, the trading-journal backend: the users and trades   *)
(* tables, the session tokens clients hold, the Access Guard               *)
(* (get_current_user) and the five request handlers (register, login,      *)
(* create_trade, read_trades, delete_trade).                               *)
(*                                                                         *)
(* Spec      every request runs to completion before the next one starts:  *)
(*           the handlers are `async def` bodies without an await, run by  *)
(*           the single event loop that uvicorn.run(app) starts.           *)
(* SpecConc  register split at its two database round trips (the SELECT of *)
(*           line 128 and the INSERT/COMMIT of lines 135-136), as several  *)
(*           worker processes over the same database would interleave them.*)
(***************************************************************************)
EXTENDS Integers, Sequences, FiniteSets, TLC

VARIABLES
    users,      \* the rows of table "users"
    trades,     \* the rows of table "trades"
    now,        \* datetime.utcnow(), in minutes
    ticks,      \* how many times the clock has advanced
    issued,     \* per username, the token its client holds (and when it was issued), or none
    req,        \* the request being answered (of its Authorization header, the number of
                \* words), [op |-> "none"] between two requests
    auth,       \* what Depends(get_current_user) did for that request
    resp,       \* the response to it
    pending     \* SpecConc: per worker, the register request between its SELECT and its INSERT

vars == <<users, trades, now, ticks, issued, req, auth, resp, pending>>

---------------------------------------------------------------------------
(* Bounds of the model *)

\* at most this many rows in table "trades" at a time
MaxTrades == 2
\* the clock advances at most this many times
MaxTicks == 1

(* Program constants *)

SECRET_KEY == "cheia-ta-secreta-foarte-lunga-si-sigura"
ACCESS_TOKEN_EXPIRE_MINUTES == 60

(* Inputs *)

Usernames == {"alice", "bob"}
\* a password as bcrypt sees it: the bytes it reads (the first 72), the bytes
\* past them, which it ignores, and whether a NUL byte is among them
Password(head, rest, nul) == [head |-> head, rest |-> rest, nul |-> nul]
\* the passwords clients send: a short one, two long ones that differ past the
\* bytes bcrypt reads, and one with a NUL byte
Passwords ==
    { Password("pw1", "", FALSE),
      Password("seventy-two-bytes", "a", FALSE),
      Password("seventy-two-bytes", "b", FALSE),
      Password("pw0", "", TRUE) }
\* the salts bcrypt may draw (nothing here compares two hashes of one password)
Salts == {"salt1"}
\* a key the server does not hold
AttackerKey == "not-the-server-key"
\* the steps by which the clock advances between two requests: up to a token's
\* expiry instant, and one minute past it
ClockSteps == {ACCESS_TOKEN_EXPIRE_MINUTES, ACCESS_TOKEN_EXPIRE_MINUTES + 1}
\* the register workers of SpecConc
Workers == {"w1", "w2"}

\* the fields of TradeSchema
SchemaFields == {"date", "pair", "direction", "risk", "rr", "pl", "obs", "link"}

\* the trade field values clients send (pl in tenths)
TradeInputs ==
    { [date |-> "2024-01-02", pair |-> "EURUSD", direction |-> "BUY", risk |-> "1%",
       rr |-> "1:2", pl |-> 125, obs |-> "", link |-> ""] }

---------------------------------------------------------------------------
(* Helpers *)

Max(S) == CHOOSE m \in S : \A n \in S : n <= m

Restrict(f, S) == [k \in S |-> f[k]]

\* an order that depends on when it is asked for: ascending ids before the
\* clock has moved, descending after
RECURSIVE ById_by_clock(_)
ById_by_clock(rows) ==
    IF rows = {} THEN <<>>
    ELSE LET r == CHOOSE r \in rows :
                    \A q \in rows : IF now = 0 THEN r.id <= q.id ELSE r.id >= q.id
         IN <<r>> \o ById_by_clock(rows \ {r})

\* the rows of `rows` in ascending id order
RECURSIVE ById(_)
ById(rows) ==
    IF rows = {} THEN <<>>
    ELSE LET r == CHOOSE r \in rows : \A q \in rows : r.id <= q.id
         IN <<r>> \o ById(rows \ {r})

Range(s) == {s[i] : i \in DOMAIN s}

\* the id the storage engine gives a new row: Integer primary_key is the
\* table's rowid, one more than the largest present
NextId(rows) == IF rows = {} THEN 1 ELSE Max({r.id : r \in rows}) + 1

---------------------------------------------------------------------------
(* Passwords *)

\* pwd_context's bcrypt handler raises a ValueError (NullPasswordError) for a
\* password with a NUL byte, when it hashes and when it verifies
refused(password) == password.nul

\* pwd_context.hash with the salt bcrypt drew: the digest is over the bytes
\* bcrypt reads
get_password_hash(password, salt) ==
    [scheme |-> "bcrypt", salt |-> salt, digest |-> <<salt, password.head>>]

\* pwd_context.verify: the hash of the plain password under the stored salt,
\* compared with the stored digest
verify_password(plain_password, hashed_password) ==
    get_password_hash(plain_password, hashed_password.salt).digest = hashed_password.digest

---------------------------------------------------------------------------
(* Tokens *)

\* the HS256 signature of a claim set under a key
Sign(payload, key) == [key |-> key, over |-> payload]

jwt_encode(payload, key) == [kind |-> "jwt", payload |-> payload, sig |-> Sign(payload, key)]

\* a credential that is no JWT at all
Garbage == [kind |-> "text", text |-> "garbage"]

\* jwt.decode that checks no signature
jwt_decode_unverified(token, key, t) ==
    IF token.kind # "jwt" THEN [err |-> "Malformed"]
    ELSE IF "exp" \in DOMAIN token.payload /\ token.payload.exp < t THEN [err |-> "Expired"]
    ELSE [err |-> "None", payload |-> token.payload]

\* jwt.decode: the signature first, then the exp claim; a claim set or an error
jwt_decode(token, key, t) ==
    IF token.kind # "jwt" THEN [err |-> "Malformed"]
    ELSE IF token.sig # Sign(token.payload, key) THEN [err |-> "BadSignature"]
    ELSE IF "exp" \in DOMAIN token.payload /\ token.payload.exp < t THEN [err |-> "Expired"]
    ELSE [err |-> "None", payload |-> token.payload]

\* create_access_token with timedelta(hours=...)
create_access_token_hours(data, t) ==
    LET expire == t + 60 * ACCESS_TOKEN_EXPIRE_MINUTES
        to_encode == [exp |-> expire] @@ data
    IN jwt_encode(to_encode, SECRET_KEY)

create_access_token(data, t) ==
    LET expire == t + ACCESS_TOKEN_EXPIRE_MINUTES
        to_encode == [exp |-> expire] @@ data
    IN jwt_encode(to_encode, SECRET_KEY)

---------------------------------------------------------------------------
(* Requests and responses *)

Text(s) == [kind |-> "text", text |-> s]

\* a request without an Authorization header
NoHeader == [present |-> FALSE, words |-> <<>>]

\* an Authorization header, as the words that split(" ") cuts it into
Header(words) == [present |-> TRUE, words |-> words]

\* the header whose value is the empty string: "".split(" ") = [""]
EmptyHeader == Header(<<Text("")>>)

\* a JSON response: the status code, the body's text (an error's detail, or the
\* success body's msg / status / token_type), the rows and the token it carries
Response(status, detail) == [status |-> status, detail |-> detail, rows |-> <<>>, token |-> <<>>]

\* HTTPException(status_code=401) without a detail: the status phrase
DefaultDetail401 == "Unauthorized"

\* a request no handler raised an HTTPException for, but that raised
ServerError == Response(500, "Internal Server Error")

NoAuth == [err |-> "NotRequired", user |-> <<>>]

---------------------------------------------------------------------------
(* The Access Guard *)

\* a rejection whose detail names the sub-case
Reject_naming(err, detail) == [err |-> err, detail |-> err, user |-> <<>>]

\* the guard's raise HTTPException(401): the sub-case (the spec's AuthError
\* variant) and the detail of the response
Reject(err, detail) == [err |-> err, detail |-> detail, user |-> <<>>]

get_current_user(header, rows, t) ==
    IF ~header.present \/ header = EmptyHeader
    THEN Reject("Missing", "Not authenticated")
    ELSE IF Len(header.words) < 2
    THEN Reject("MalformedScheme", "Token invalid")
    ELSE LET token == header.words[2]
             d == jwt_decode(token, SECRET_KEY, t)
         IN IF d.err # "None" THEN Reject(d.err, "Token invalid")
            ELSE IF "sub" \notin DOMAIN d.payload THEN Reject("MissingSubject", "Token invalid")
            ELSE LET found == {u \in rows : u.username = d.payload.sub}
                 IN IF found = {} THEN Reject("UnknownUser", DefaultDetail401)
                    ELSE [err |-> "None", detail |-> "", user |-> <<CHOOSE u \in found : TRUE>>]

---------------------------------------------------------------------------
(* The handlers, as functions of the tables: the tables after, and the response *)

\* db.query(UserDB).filter(UserDB.username == username).first()
user_by_name(rows, username) == {u \in rows : u.username = username}

\* an insert that replaces the table's rows by the new one
insert_user_replacing(rows, username, hashed_pw) ==
    [users |-> {[id |-> NextId(rows), username |-> username, hashed_password |-> hashed_pw]},
     resp |-> Response(200, "User created successfully")]

\* db.add(new_user); db.commit(), under the UNIQUE constraint on users.username
insert_user(rows, username, hashed_pw) ==
    IF user_by_name(rows, username) # {}
    THEN [users |-> rows, resp |-> ServerError]
    ELSE [users |-> rows \cup {[id |-> NextId(rows), username |-> username,
                                hashed_password |-> hashed_pw]},
          resp |-> Response(200, "User created successfully")]

\* register updating the password of a user that exists
register_overwrite(rows, username, password, salt) ==
    LET existing_user == user_by_name(rows, username)
    IN IF existing_user # {}
       THEN [users |-> {IF u \in existing_user
                        THEN [u EXCEPT !.hashed_password = get_password_hash(password, salt)]
                        ELSE u : u \in rows},
             resp |-> Response(400, "User already exists")]
       ELSE IF refused(password) THEN [users |-> rows, resp |-> ServerError]
       ELSE insert_user(rows, username, get_password_hash(password, salt))

\* the existence check, then the hash (which may raise), then the insert
register(rows, username, password, salt) ==
    IF user_by_name(rows, username) # {}
    THEN [users |-> rows, resp |-> Response(400, "User already exists")]
    ELSE IF refused(password) THEN [users |-> rows, resp |-> ServerError]
    ELSE insert_user(rows, username, get_password_hash(password, salt))

\* login telling an unknown username from a wrong password
login_not_found(rows, username, password, t) ==
    LET db_user == user_by_name(rows, username)
    IN IF db_user = {} THEN Response(404, "User not found")
       ELSE IF refused(password) THEN ServerError
       ELSE IF ~verify_password(password, (CHOOSE u \in db_user : TRUE).hashed_password)
       THEN Response(401, "Incorrect username or password")
       ELSE LET access_token == create_access_token([sub |-> (CHOOSE u \in db_user : TRUE).username], t)
            IN [Response(200, "bearer") EXCEPT !.token = <<access_token>>]

\* login that issues a token for the username sent, stored or not
login_unchecked(rows, username, password, t) ==
    [Response(200, "bearer") EXCEPT !.token = <<create_access_token([sub |-> username], t)>>]

\* `not db_user or not verify_password(...)`: verify_password runs, and may
\* raise, only for a username that is stored
login(rows, username, password, t) ==
    LET db_user == user_by_name(rows, username)
    IN IF db_user # {} /\ refused(password) THEN ServerError
       ELSE IF db_user = {} \/ ~verify_password(password, (CHOOSE u \in db_user : TRUE).hashed_password)
       THEN Response(401, "Incorrect username or password")
       ELSE LET access_token == create_access_token([sub |-> (CHOOSE u \in db_user : TRUE).username], t)
            IN [Response(200, "bearer") EXCEPT !.token = <<access_token>>]

\* TradeSchema: the declared fields of the JSON body, any other field dropped
TradeSchema(json) == Restrict(json, SchemaFields)

\* a trade row stored without its owner
TradeDB_orphan(fields, owner_id, id) == [id |-> id, owner_id |-> 0] @@ fields

\* TradeDB(**trade.dict(), owner_id=current_user.id), with the id the insert gives it
TradeDB(fields, owner_id, id) == [id |-> id, owner_id |-> owner_id] @@ fields

\* create_trade taking the owner from the body when the body names one
create_trade_client_owner(rows, json, current_user) ==
    LET owner_id == IF "owner_id" \in DOMAIN json THEN json.owner_id ELSE current_user.id
        db_trade == TradeDB(TradeSchema(json), owner_id, NextId(rows))
    IN [trades |-> rows \cup {db_trade}, resp |-> Response(200, "success")]

\* a field given twice, in **trade.dict() and as owner_id=, is a TypeError
create_trade(rows, json, current_user) ==
    LET trade == TradeSchema(json)
        db_trade == TradeDB(trade, current_user.id, NextId(rows))
    IN IF "owner_id" \in DOMAIN trade
       THEN [trades |-> rows, resp |-> ServerError]
       ELSE [trades |-> rows \cup {db_trade}, resp |-> Response(200, "success")]

\* read_trades's query without its filter
owned_by_anyone(rows, owner_id) == rows

\* the filter of read_trades's query
owned_by(rows, owner_id) == {r \in rows : r.owner_id = owner_id}

\* read_trades that deletes what it returns
read_trades_consuming(rows, current_user) ==
    [trades |-> rows \ owned_by(rows, current_user.id),
     resp |-> [Response(200, "") EXCEPT !.rows = ById(owned_by(rows, current_user.id))]]

read_trades(rows, current_user) ==
    [trades |-> rows,
     resp |-> [Response(200, "") EXCEPT !.rows = ById(owned_by(rows, current_user.id))]]

\* delete_trade's query filtering on the id alone
delete_match_any_owner(rows, trade_id, owner_id) == {r \in rows : r.id = trade_id}

\* the filter of delete_trade's query
delete_match(rows, trade_id, owner_id) == {r \in rows : r.id = trade_id /\ r.owner_id = owner_id}

\* delete_trade without its db.commit(): the row stays
delete_trade_uncommitted(rows, trade_id, current_user) ==
    [trades |-> rows, resp |-> Response(200, "deleted")]

delete_trade(rows, trade_id, current_user) ==
    LET trade == delete_match(rows, trade_id, current_user.id)
    IN [trades |-> IF trade # {} THEN rows \ {CHOOSE r \in trade : TRUE} ELSE rows,
        resp |-> Response(200, "deleted")]

\* a rejection answered 403, as for a caller known but not allowed
guarded_forbidden(g, rows, handled) ==
    IF g.err # "None"
    THEN [trades |-> rows, resp |-> Response(IF g.err = "Missing" THEN 403 ELSE 401, g.detail)]
    ELSE handled

\* a handler behind Depends(get_current_user): the guard's HTTPException is the
\* response and the handler, whose result is `handled`, never runs
guarded(g, rows, handled) ==
    IF g.err # "None"
    THEN [trades |-> rows, resp |-> Response(401, g.detail)]
    ELSE handled

---------------------------------------------------------------------------
(* What clients can send *)

\* what a client without the server's key makes of a token it holds: another
\* subject or a later expiry under the old signature
Tampered(t) ==
    {[t EXCEPT !.payload.sub = u] : u \in Usernames \ {t.payload.sub}}
        \cup {[t EXCEPT !.payload.exp = @ + ACCESS_TOKEN_EXPIRE_MINUTES]}

\* tokens signed with a key of the client's own, with and without a subject
Forged(t) ==
    {jwt_encode([sub |-> u, exp |-> t + ACCESS_TOKEN_EXPIRE_MINUTES], AttackerKey) : u \in Usernames}
        \cup {jwt_encode([exp |-> t + ACCESS_TOKEN_EXPIRE_MINUTES], AttackerKey)}

\* the tokens clients hold
Held == {issued[u][1].token : u \in {v \in Usernames : issued[v] # <<>>}}

\* the credentials a request may carry
Credentials == Held \cup UNION {Tampered(t) : t \in Held} \cup Forged(now) \cup {Garbage}

\* the Authorization headers a request may carry
Headers ==
    {NoHeader, EmptyHeader, Header(<<Text("Bearer")>>)}
        \cup {Header(<<Text("Bearer"), c>>) : c \in Credentials}
        \cup {Header(<<c>>) : c \in Held}
        \cup {Header(<<Text("Basic"), c>>) : c \in Held}
        \cup {Header(<<Text("Bearer"), c, Text("extra")>>) : c \in Held}

\* the JSON bodies of a create request: the trade fields, alone or with an
\* owner_id field of the client's choosing
TradeBodies ==
    TradeInputs \cup {[owner_id |-> o] @@ f : f \in TradeInputs, o \in {r.id : r \in users}}

\* the trade ids a delete request may name: one more than can exist
TradeIds == 1 .. (MaxTrades + 1)

\* the guard reads the header alone: a request it rejects is sent with one body,
\* one id
Accepts(header) == get_current_user(header, users, now).err = "None"
BodiesWith(header) == IF Accepts(header) THEN TradeBodies ELSE TradeInputs
IdsWith(header) == IF Accepts(header) THEN TradeIds ELSE {1}

-------------------------------------------------------------------------------------------------------------------------------------------------
(* The state machine: a request is handled in one step, which leaves its     *)
(* response in resp; the response is sent in the next.                       *)

NoRequest == [op |-> "none"]
NoResponse == Response(0, "")

Idle == req = NoRequest

Init ==
    /\ users = {}
    /\ trades = {}
    /\ now = 0
    /\ ticks = 0
    /\ issued = [u \in Usernames |-> <<>>]
    /\ req = NoRequest
    /\ auth = NoAuth
    /\ resp = NoResponse
    /\ pending = [w \in Workers |-> <<>>]

\* time passes between two requests
Tick(d) ==
    /\ Idle
    /\ ticks < MaxTicks
    /\ now' = now + d
    /\ ticks' = ticks + 1
    /\ UNCHANGED <<users, trades, issued, req, auth, resp, pending>>

\* the response leaves; a client that is sent a token keeps it in place of the
\* one it held, or goes on with the old one
Respond(keep) ==
    /\ ~Idle
    /\ issued' = IF keep /\ resp.token # <<>>
                 THEN [issued EXCEPT ![req.username] = <<[token |-> resp.token[1], at |-> now]>>]
                 ELSE issued
    /\ req' = NoRequest
    /\ auth' = NoAuth
    /\ resp' = NoResponse
    /\ UNCHANGED <<users, trades, now, ticks, pending>>

\* POST /api/register
Register(username, password, salt) ==
    LET r == register(users, username, password, salt)
    IN /\ Idle
       /\ req' = [op |-> "register", username |-> username, password |-> password]
       /\ auth' = NoAuth
       /\ users' = r.users
       /\ resp' = r.resp
       /\ UNCHANGED <<trades, now, ticks, issued, pending>>

\* POST /api/login
Login(username, password) ==
    /\ Idle
    /\ req' = [op |-> "login", username |-> username, password |-> password]
    /\ auth' = NoAuth
    /\ resp' = login(users, username, password, now)
    /\ UNCHANGED <<users, trades, now, ticks, issued, pending>>

\* POST /api/trades/
CreateTrade(header, json) ==
    LET g == get_current_user(header, users, now)
        r == guarded(g, trades, create_trade(trades, json, g.user[1]))
    IN /\ Idle
       /\ g.err = "None" => Cardinality(trades) < MaxTrades
       /\ req' = [op |-> "create", words |-> Len(header.words), json |-> json]
       /\ auth' = [err |-> g.err, user |-> g.user]
       /\ trades' = r.trades
       /\ resp' = r.resp
       /\ UNCHANGED <<users, now, ticks, issued, pending>>

\* GET /api/trades/
ReadTrades(header) ==
    LET g == get_current_user(header, users, now)
        r == guarded(g, trades, read_trades(trades, g.user[1]))
    IN /\ Idle
       /\ req' = [op |-> "list", words |-> Len(header.words)]
       /\ auth' = [err |-> g.err, user |-> g.user]
       /\ trades' = r.trades
       /\ resp' = r.resp
       /\ UNCHANGED <<users, now, ticks, issued, pending>>

\* DELETE /api/trades/{trade_id}
DeleteTrade(header, trade_id) ==
    LET g == get_current_user(header, users, now)
        r == guarded(g, trades, delete_trade(trades, trade_id, g.user[1]))
    IN /\ Idle
       /\ req' = [op |-> "delete", words |-> Len(header.words), trade_id |-> trade_id]
       /\ auth' = [err |-> g.err, user |-> g.user]
       /\ trades' = r.trades
       /\ resp' = r.resp
       /\ UNCHANGED <<users, now, ticks, issued, pending>>

Next ==
    \/ \E keep \in (IF resp.token # <<>> THEN BOOLEAN ELSE {FALSE}) : Respond(keep)
    \/ Idle /\ \E d \in ClockSteps : Tick(d)
    \/ Idle /\ \E u \in Usernames, p \in Passwords, s \in Salts : Register(u, p, s)
    \/ Idle /\ \E u \in Usernames, p \in Passwords : Login(u, p)
    \/ Idle /\ \E h \in Headers : \E j \in BodiesWith(h) : CreateTrade(h, j)
    \/ Idle /\ \E h \in Headers : ReadTrades(h)
    \/ Idle /\ \E h \in Headers : \E i \in IdsWith(h) : DeleteTrade(h, i)

Spec == Init /\ [][Next]_vars

---------------------------------------------------------------------------
(* register in several workers: the step up to the SELECT's result, and the    *)
(* step from there to the response                                           *)

\* worker w takes a register request and runs the existence check
RegisterSelect(w, username, password) ==
    /\ pending[w] = <<>>
    /\ IF user_by_name(users, username) # {}
       THEN /\ req' = [op |-> "register", username |-> username, password |-> password]
            /\ auth' = NoAuth
            /\ resp' = Response(400, "User already exists")
            /\ UNCHANGED pending
       ELSE /\ pending' = [pending EXCEPT ![w] = <<[username |-> username, password |-> password]>>]
            /\ UNCHANGED <<req, auth, resp>>
    /\ UNCHANGED <<users, trades, now, ticks, issued>>

\* worker w hashes the password, adds the row and commits
RegisterInsert(w, salt) ==
    /\ pending[w] # <<>>
    /\ LET r == IF refused(pending[w][1].password)
                THEN [users |-> users, resp |-> ServerError]
                ELSE insert_user(users, pending[w][1].username,
                                 get_password_hash(pending[w][1].password, salt))
       IN /\ users' = r.users
          /\ resp' = r.resp
    /\ req' = [op |-> "register", username |-> pending[w][1].username,
                                  password |-> pending[w][1].password]
    /\ auth' = NoAuth
    /\ pending' = [pending EXCEPT ![w] = <<>>]
    /\ UNCHANGED <<trades, now, ticks, issued>>

NextConc ==
    \/ \E w \in Workers, u \in Usernames, p \in Passwords : RegisterSelect(w, u, p)
    \/ \E w \in Workers, s \in Salts : RegisterInsert(w, s)

SpecConc == Init /\ [][NextConc]_vars

---------------------------------------------------------------------------
(* Properties *)

\* the requests behind the Access Guard
ProtectedOps == {"create", "list", "delete"}

\* a request is being answered that the guard let through
Authenticated == req.op \in ProtectedOps /\ auth.err = "None"

\* a step that handles a request
Handles == Idle /\ ~Idle'

\* C1: a list request authenticated as user B is answered with exactly the stored
\* trades whose owner is B, each once: no trade of another user is among them.
C1_ListReturnsOwnTradesOnly ==
    (req.op = "list" /\ auth.err = "None") =>
        LET B == auth.user[1]
        IN /\ resp.status = 200
           /\ Range(resp.rows) = {t \in trades : t.owner_id = B.id}
           /\ Len(resp.rows) = Cardinality({t \in trades : t.owner_id = B.id})
           /\ \A A \in users : A # B => \A t \in trades : t.owner_id = A.id => t \notin Range(resp.rows)

\* B is sent its own trade while a trade of another user is stored
C1_Witness ==
    /\ req.op = "list" /\ auth.err = "None"
    /\ resp.rows # <<>>
    /\ \E t \in trades : t.owner_id # auth.user[1].id

\* C2: a delete request by B for an id that exists but belongs to another user
\* deletes nothing and is answered as B's delete of an id that does not exist.
C2_ForeignDeleteIsNoop ==
    [][(/\ Handles
        /\ req'.op = "delete" /\ auth'.err = "None"
        /\ \E t \in trades : t.id = req'.trade_id /\ t.owner_id # auth'.user[1].id)
       => (/\ trades' = trades
           /\ users' = users
           /\ \A n \in TradeIds \ {t.id : t \in trades} :
                /\ resp' = delete_trade(trades, n, auth'.user[1]).resp
                /\ delete_trade(trades, n, auth'.user[1]).trades = trades)]_vars

\* B's delete of another user's trade is being answered, the trade still stored
C2_Witness ==
    /\ req.op = "delete" /\ auth.err = "None"
    /\ \E t \in trades : t.id = req.trade_id /\ t.owner_id # auth.user[1].id

\* C3: only a create request stores a trade, and the trade it stores is owned by
\* the user the guard resolved, whatever the body says (an owner_id included);
\* its other fields are the body's.
C3_OwnerIsTheCaller ==
    [][\A t \in trades' \ trades :
          /\ Handles
          /\ req'.op = "create" /\ auth'.err = "None"
          /\ auth'.user[1] \in users
          /\ t.owner_id = auth'.user[1].id
          /\ Restrict(t, SchemaFields) = Restrict(req'.json, SchemaFields)]_vars

\* a create whose body names another user as owner has been stored for the caller
C3_Witness ==
    /\ req.op = "create" /\ auth.err = "None" /\ resp.status = 200
    /\ "owner_id" \in DOMAIN req.json
    /\ req.json.owner_id # auth.user[1].id
    /\ \E t \in trades : t.id = Max({q.id : q \in trades}) /\ t.owner_id = auth.user[1].id

\* C4: a protected request whose authentication fails, whatever the reason, is
\* answered 401 with no trade data, and leaves both tables as they were; a
\* request without a header, or whose header is a single word, does fail.
C4_RejectedBeforeHandler ==
    [][(Handles /\ req'.op \in ProtectedOps) =>
          /\ req'.words < 2 => auth'.err # "None"
          /\ auth'.err # "None" =>
                /\ resp'.status = 401
                /\ resp'.rows = <<>> /\ resp'.token = <<>>
                /\ users' = users
                /\ trades' = trades]_vars

\* a create request with an expired token is being answered, trades being stored
C4_Witness ==
    /\ req.op = "create" /\ auth.err = "Expired"
    /\ resp.status = 401
    /\ trades # {}

\* C5: a token login issued for u at time t carries expiry t + 60; the guard
\* resolves it to exactly u at any time up to t + 60 and rejects it as expired
\* after, whatever was done in between (used, logged in again, anything else).
C5_TokenLivesSixtyMinutes ==
    \A u \in Usernames : issued[u] # <<>> =>
        LET i == issued[u][1]
            g == get_current_user(Header(<<Text("Bearer"), i.token>>), users, now)
        IN /\ i.token.payload.exp = i.at + 60
           /\ now <= i.at + 60 => (g.err = "None" /\ g.user[1].username = u)
           /\ now > i.at + 60 => g.err = "Expired"

\* a token is held at its expiry instant, a login for the same user is answered
\* with a later one, and the held one is as it was issued
C5_Witness ==
    \E u \in Usernames :
        /\ issued[u] # <<>>
        /\ now = issued[u][1].at + 60
        /\ req.op = "login" /\ req.username = u
        /\ resp.token # <<>> /\ resp.token[1].payload.exp = now + 60

\* a request with a token past its expiry is being rejected
C5_WitnessExpired ==
    /\ req.op = "list" /\ auth.err = "Expired"
    /\ \E u \in Usernames : issued[u] # <<>> /\ now = issued[u][1].at + 61

\* C6: whatever header a client can send, the guard resolves it to a user only
\* when its second word is a token whose signature verifies under the server's
\* key, whose expiry has not passed and whose subject is the username of a
\* stored user, and then to that user; a tampered token and one signed with
\* another key resolve to nobody.
C6_GuardAcceptsOnlyValidTokens ==
    /\ Idle => \A h \in Headers :
          LET g == get_current_user(h, users, now)
          IN /\ g.err = "None" =>
                  /\ Len(h.words) >= 2
                  /\ h.words[2].kind = "jwt"
                  /\ h.words[2].sig = Sign(h.words[2].payload, SECRET_KEY)
                  /\ h.words[2].payload.exp >= now
                  /\ "sub" \in DOMAIN h.words[2].payload
                  /\ Len(g.user) = 1
                  /\ g.user[1] \in users
                  /\ g.user[1].username = h.words[2].payload.sub
             /\ (Len(h.words) >= 2
                   /\ h.words[2] \in UNION {Tampered(t) : t \in Held} \cup Forged(now))
                  => g.err # "None"
    /\ Authenticated =>
          /\ auth.user[1] \in users
          /\ \E u \in Usernames :
                /\ issued[u] # <<>>
                /\ issued[u][1].token.payload.sub = auth.user[1].username
                /\ issued[u][1].token.payload.exp >= now

\* a request with a token whose signature does not verify is being rejected,
\* while a client holds a token that is still good
C6_Witness ==
    /\ req.op \in ProtectedOps /\ auth.err = "BadSignature"
    /\ \E u \in Usernames : issued[u] # <<>> /\ issued[u][1].token.payload.exp >= now

\* C7: a register request for a username that is taken is answered 400 and
\* changes nothing: the users table is as it was, so the passwords that log its
\* users in are the same as before.
C7_DuplicateRegisterChangesNothing ==
    [][(/\ Handles
        /\ req'.op = "register"
        /\ user_by_name(users, req'.username) # {})
       => (/\ resp' = Response(400, "User already exists")
           /\ users' = users
           /\ trades' = trades
           /\ \A u \in Usernames, p \in Passwords :
                 login(users', u, p, now).status = login(users, u, p, now).status)]_vars

\* a register for a taken username, with another password than the stored one,
\* is being answered 400
C7_Witness ==
    /\ req.op = "register" /\ resp.status = 400
    /\ \E u \in users : u.username = req.username /\ ~verify_password(req.password, u.hashed_password)
    /\ Cardinality(users) = 1

\* C8: a register request (with a password that can be hashed) that does not
\* create the user is answered with the conflict error, status 400, also when
\* the workers interleave.
C8_LoserGetsConflict ==
    (req.op = "register" /\ ~refused(req.password) /\ resp.status # 200)
        => resp = Response(400, "User already exists")

\* the part of C8 that the UNIQUE constraint gives: no two rows of users share a
\* username
C8_UsernamesUnique ==
    \A u, v \in users : u.username = v.username => u = v

\* a username nobody registers
UnknownName == "mallory"

\* C9: a login that fails is answered as a login for a username that is not
\* registered, whether the username is unknown or the password wrong, and with
\* no token; a wrong password does fail.
C9_LoginFailuresAlike ==
    req.op = "login" =>
        /\ resp.status # 200 =>
              /\ resp = login(users, UnknownName, req.password, now)
              /\ resp.status = 401
              /\ resp.token = <<>>
        /\ (\E u \in users : u.username = req.username
                /\ ~verify_password(req.password, u.hashed_password)) => resp.status # 200
        /\ user_by_name(users, req.username) = {} => resp.status # 200

\* a login for a registered username with a wrong password is being answered
C9_Witness ==
    /\ req.op = "login" /\ resp.status = 401
    /\ \E u \in users : u.username = req.username

\* C10 as claimed: every rejection by the guard is one and the same response,
\* that is, the response a request without a header gets.
C10_OneGenericResponse ==
    (req.op \in ProtectedOps /\ auth.err # "None") =>
        resp = Response(401, get_current_user(NoHeader, users, now).detail)

\* C10 as amended: every rejection by the guard is a 401 without data; its
\* detail tells a missing header from a header no subject can be read from, and
\* nothing more: malformed scheme, undecodable, expired, badly signed and
\* subject-less tokens are answered alike. (An unknown user gets the status
\* phrase.)
C10_RejectionsByGroup ==
    /\ (req.op \in ProtectedOps /\ auth.err # "None") =>
          /\ resp.status = 401 /\ resp.rows = <<>> /\ resp.token = <<>>
          /\ auth.err = "Missing" => resp.detail = "Not authenticated"
          /\ auth.err \in {"MalformedScheme", "Malformed", "Expired", "BadSignature",
                          "MissingSubject"} => resp.detail = "Token invalid"
          /\ auth.err = "UnknownUser" => resp.detail = "Unauthorized"
    /\ \A u \in Usernames : issued[u] # <<>> =>
          get_current_user(Header(<<Text("Bearer"), issued[u][1].token>>), {}, issued[u][1].at)
              = Reject("UnknownUser", "Unauthorized")

\* a request with an expired token is being answered "Token invalid"
C10_Witness ==
    /\ req.op \in ProtectedOps /\ auth.err = "Expired"
    /\ resp = Response(401, "Token invalid")

\* C11: a protected request whose Authorization header does not split into
\* exactly two words (none, one, three or more) is never authenticated.
C11_ExactlyTwoParts ==
    (req.op \in ProtectedOps /\ req.words # 2) => auth.err # "None"

\* C12: the response to an authenticated delete tells whether a trade was
\* removed: it is a 200, and a delete by the same caller with the other outcome
\* (one removes a trade, the other removes none) is answered differently.
C12_ResultTellsWhetherDeleted ==
    [][(Handles /\ req'.op = "delete" /\ auth'.err = "None") =>
          /\ resp'.status = 200
          /\ \A n \in TradeIds :
                LET other == delete_trade(trades, n, auth'.user[1])
                IN ((other.trades # trades) # (trades' # trades)) => other.resp # resp']_vars

\* C13: once register(u, p) has succeeded, a login for u is answered with a
\* token exactly when the password sent is p, the token's subject being u, and
\* with the invalid-credentials 401 for any other password; a login for a
\* username that is not registered is answered 401 without a token.
C13_LoginIffRegisteredPassword ==
    [][/\ (Handles /\ req'.op = "register" /\ resp'.status = 200) =>
            \A q \in Passwords :
                LET r == login(users', req'.username, q, now)
                IN /\ r.status = 200 <=> q = req'.password
                   /\ r.status = 200 => (r.token # <<>> /\ r.token[1].payload.sub = req'.username)
                   /\ q # req'.password => r = Response(401, "Incorrect username or password")
       /\ (Handles /\ req'.op = "login" /\ user_by_name(users, req'.username) = {}) =>
            (resp'.status = 401 /\ resp'.token = <<>>)]_vars

\* C14: a create by an authenticated user stores one trade, which that user's
\* list, taken at once, contains; a delete by the owner removes exactly that
\* trade, which that user's list then lacks, and leaves every user's other
\* trades as they were; a trade appears in the table only by a create (so a
\* removed one stays out of every later list).
C14_CreateListDeleteRoundTrip ==
    [][/\ (Handles /\ req'.op = "create" /\ auth'.err = "None" /\ resp'.status = 200) =>
            \E t \in trades' \ trades :
                /\ trades' = trades \cup {t}
                /\ t \in Range(read_trades(trades', auth'.user[1]).resp.rows)
       /\ (Handles /\ req'.op = "delete" /\ auth'.err = "None") =>
            \A t \in trades : (t.id = req'.trade_id /\ t.owner_id = auth'.user[1].id) =>
                /\ trades' = trades \ {t}
                /\ \A r \in Range(read_trades(trades', auth'.user[1]).resp.rows) : r.id # t.id
                /\ \A v \in users :
                      read_trades(trades', v).resp.rows
                          = SelectSeq(read_trades(trades, v).resp.rows, LAMBDA r : r # t)
       /\ trades' \ trades # {} => (Handles /\ req'.op = "create")]_vars

\* the owner's delete of trade 1 is being answered: trade 1 is gone, a trade
\* stored after it, of another user, is still there
C14_Witness ==
    /\ req.op = "delete" /\ auth.err = "None" /\ req.trade_id = 1
    /\ \A t \in trades : t.id # 1
    /\ \E t \in trades : t.id = 2 /\ t.owner_id # auth.user[1].id

\* the instants a token presented now may have been made at: now, its expiry
\* instant ago, and a minute more
MadeAt == {t \in {now, now - ACCESS_TOKEN_EXPIRE_MINUTES, now - ACCESS_TOKEN_EXPIRE_MINUTES - 1} : t >= 0}

\* C15: a login (answered with a token or not), a list and a request the guard
\* rejects leave both tables as they were, and no protected request changes the
\* users table; the guard keeps no record of logins: a token for u made at t
\* with the server's key authenticates exactly when it has not expired and u is
\* stored, whether or not any login issued it and whatever the trades are.
C15_Stateless ==
    [][/\ (Handles /\ req'.op \in {"login", "list"}) => (users' = users /\ trades' = trades)
       /\ (Handles /\ req'.op \in ProtectedOps) =>
            /\ users' = users
            /\ auth'.err # "None" => trades' = trades
       /\ \A u \in Usernames, t \in MadeAt :
            LET h == Header(<<Text("Bearer"), create_access_token([sub |-> u], t)>>)
            IN get_current_user(h, users, now).err = "None"
                 <=> (now <= t + ACCESS_TOKEN_EXPIRE_MINUTES /\ user_by_name(users, u) # {})]_vars

\* a login for a user whose client already holds a token is being answered with
\* another one, trades being stored
C15_Witness ==
    /\ req.op = "login" /\ resp.token # <<>>
    /\ issued[req.username] # <<>>
    /\ trades # {}

C17_OwnerFixedAndExists ==
    [][/\ \A t \in trades : Cardinality({u \in users : u.id = t.owner_id}) = 1
       /\ \A t, q \in trades : t.id = q.id => t = q
       /\ \A t \in trades, q \in trades' : t.id = q.id => q = t
       /\ \A t \in trades' : Cardinality({u \in users' : u.id = t.owner_id}) = 1]_vars

\* two trades of two owners are stored while a delete that removed neither is
\* being answered
C17_Witness ==
    /\ req.op = "delete" /\ auth.err = "None"
    /\ \E t, q \in trades : t.owner_id # q.owner_id
    /\ \A t \in trades : \E u \in users : u.id = t.owner_id

\* C18: every user stored before a step is stored after it, the same row (id,
\* username, password hash); a row is added only by a register answered 200,
\* one row, under the username of the request; create, list and delete never
\* change the users table; ids and usernames are unique.
C18_UsersOnlyGrow ==
    [][/\ users \subseteq users'
       /\ users' # users =>
            /\ Handles /\ req'.op = "register" /\ resp'.status = 200
            /\ \E n \in users' \ users :
                  /\ users' = users \cup {n}
                  /\ n.username = req'.username
                  /\ verify_password(req'.password, n.hashed_password)
       /\ (Handles /\ req'.op \in ProtectedOps) => users' = users
       /\ \A u, v \in users' : (u.id = v.id \/ u.username = v.username) => u = v]_vars

\* the register of a second user is being answered 200, trades being stored
C18_Witness ==
    /\ req.op = "register" /\ resp.status = 200
    /\ Cardinality(users) = 2
    /\ trades # {}

\* C19: a token a login issued names a stored user for as long as it is held: the
\* guard never rejects it as of an unknown user, and resolves it to its user
\* until its expiry, whatever was done since; no request at all is rejected for
\* an unknown user.
C19_IssuedTokenNamesAUser ==
    /\ \A u \in Usernames : issued[u] # <<>> =>
          LET tok == issued[u][1].token
              g == get_current_user(Header(<<Text("Bearer"), tok>>), users, now)
          IN /\ tok.payload.sub = u
             /\ user_by_name(users, u) # {}
             /\ g.err \in {"None", "Expired"}
             /\ now <= tok.payload.exp => (g.err = "None" /\ g.user[1].username = u)
    /\ resp.token # <<>> => user_by_name(users, resp.token[1].payload.sub) # {}
    /\ auth.err # "UnknownUser"

\* a token is used at its expiry instant, after a second user has registered and
\* trades have been stored
C19_Witness ==
    /\ req.op = "list" /\ auth.err = "None"
    /\ issued[auth.user[1].username] # <<>>
    /\ now = issued[auth.user[1].username][1].token.payload.exp
    /\ now > 0
    /\ Cardinality(users) = 2
    /\ trades # {}

====
